---- MODULE Spec2Model ----
(***************************************************************************)
(* The assignment engine of AG-Assegnazione (src/src/core/assigner.py):    *)
(* ActivityAssigner.assign_activities and the routines it is built from.   *)
(* People and activities are identified by their position in the roster    *)
(* and in the catalog (the insertion order of the Python list and dict).   *)
(***************************************************************************)
EXTENDS Integers, Sequences, FiniteSets, TLC

VARIABLES people, activities, assignments, stats,
          pc, next_person, changes_made, potentially_cancelled,
          run, first_outcome

vars == <<people, activities, assignments, stats,
          pc, next_person, changes_made, potentially_cancelled,
          run, first_outcome>>

(***************************************************************************)
(* Bounds of the enumerated inputs.                                        *)
(***************************************************************************)
MaxPeople == 3
MaxActs == 2
MaxCap == 2
MaxPrefs == 2

(***************************************************************************)
(* Program constants.                                                      *)
(***************************************************************************)
\* Optional[str] = None for Person.assigned_activity (activities are 1..n)
None == 0
\* Optional[int] = None for Person.preference_level (levels are 0-based)
NoLevel == -1
\* the statistics buckets n1..n4 / got_n1..got_n4, and range(4)
NumRanks == 4

(***************************************************************************)
(* Helpers on Python lists and sets.                                       *)
(***************************************************************************)
Range(s) == {s[i] : i \in DOMAIN s}

\* list.index(x): the 0-based position of the first occurrence
ListIndex(s, x) == (CHOOSE i \in DOMAIN s : s[i] = x /\ \A j \in 1..(i - 1) : s[j] # x) - 1

\* list.remove(x): drops the first occurrence
ListRemove(s, x) ==
    IF x \notin Range(s) THEN s
    ELSE LET i == ListIndex(s, x) + 1
         IN  SubSeq(s, 1, i - 1) \o SubSeq(s, i + 1, Len(s))

\* Mutant: the slice stops one element short.
ListTake_one_short(s, k) ==
    IF k >= 1 THEN SubSeq(s, 1, IF k - 1 < Len(s) THEN k - 1 ELSE Len(s))
    ELSE <<>>

\* list[:k], negative k counting from the end as Python does
ListTake(s, k) ==
    IF k >= 0 THEN SubSeq(s, 1, IF k < Len(s) THEN k ELSE Len(s))
    ELSE SubSeq(s, 1, IF Len(s) + k > 0 THEN Len(s) + k ELSE 0)

\* the members of a set in the order given by the sequence ord
RECURSIVE OrderedBy(_, _)
OrderedBy(set, ord) ==
    IF ord = <<>> THEN <<>>
    ELSE (IF Head(ord) \in set THEN <<Head(ord)>> ELSE <<>>) \o OrderedBy(set, Tail(ord))

\* all orders in which a set of n names can be visited
Orders(n) == {o \in [1..n -> 1..n] : \A i, j \in 1..n : i # j => o[i] # o[j]}

(***************************************************************************)
(* The engine's state as one value: operators below map states to states.  *)
(* raised records an exception escaping the routine (KeyError/ValueError). *)
(***************************************************************************)
Cur == [people |-> people, activities |-> activities,
        assignments |-> assignments, stats |-> stats, raised |-> FALSE]

EmptyStats == [n |-> [k \in 1..NumRanks |-> 0],
               unassigned |-> 0,
               cancelled_activities |-> <<>>,
               got_n |-> [k \in 1..NumRanks |-> <<>>],
               got_unassigned |-> <<>>]

NewPerson(prefs) == [preferences |-> prefs, assigned_activity |-> None,
                     preference_level |-> NoLevel]

NewActivity(mn, mx) == [min_participants |-> mn, max_participants |-> mx,
                        is_cancelled |-> FALSE]

Count(S, a) == Cardinality(S.assignments[a])

\* Mutant: the capacity test admits one person too many (<= for <).
has_space_off_by_one(S, a) ==
    IF a \notin DOMAIN S.activities THEN FALSE
    ELSE IF S.activities[a].is_cancelled THEN FALSE
    ELSE Count(S, a) <= S.activities[a].max_participants

\* Mutant: the capacity test forgets the cancellation flag.
has_space_ignores_cancelled(S, a) ==
    IF a \notin DOMAIN S.activities THEN FALSE
    ELSE Count(S, a) < S.activities[a].max_participants

has_space(S, a) ==
    IF a \notin DOMAIN S.activities THEN FALSE
    ELSE IF S.activities[a].is_cancelled THEN FALSE
    ELSE Count(S, a) < S.activities[a].max_participants

\* Mutant: the counter is lowered but the name stays in the list.
StatsRelease_keeps_name(S, p) ==
    LET k == S.people[p].preference_level + 1
    IN  IF k \notin 1..NumRanks
        THEN [S EXCEPT !.raised = TRUE]
        ELSE [S EXCEPT !.stats.n[k] = @ - 1]

\* stats[f'n{level+1}'] -= 1 and got_n{level+1}.remove(name)
StatsRelease(S, p) ==
    LET k == S.people[p].preference_level + 1
    IN  IF k \notin 1..NumRanks
        THEN [S EXCEPT !.raised = TRUE]
        ELSE IF p \notin Range(S.stats.got_n[k])
        THEN [S EXCEPT !.stats.n[k] = @ - 1, !.raised = TRUE]
        ELSE [S EXCEPT !.stats.n[k] = @ - 1,
                       !.stats.got_n[k] = ListRemove(@, p)]

\* Mutant: the name is appended to the list but the counter is not raised.
StatsRecord_no_count(S, p, pref_level) ==
    LET k == pref_level + 1
    IN  IF k \notin 1..NumRanks
        THEN [S EXCEPT !.raised = TRUE]
        ELSE [S EXCEPT !.stats.got_n[k] = Append(@, p)]

\* stats[f'n{level+1}'] += 1 and got_n{level+1}.append(name)
StatsRecord(S, p, pref_level) ==
    LET k == pref_level + 1
    IN  IF k \notin 1..NumRanks
        THEN [S EXCEPT !.raised = TRUE]
        ELSE [S EXCEPT !.stats.n[k] = @ + 1,
                       !.stats.got_n[k] = Append(@, p)]

\* Mutant: a person who moves is not taken out of the previous set.
assign_to_activity_keeps_old(S, p, a, pref_level) ==
    IF ~has_space(S, a) THEN [S |-> S, ok |-> FALSE]
    ELSE
      LET old == S.people[p].assigned_activity
          S1 == IF old # None /\ S.people[p].preference_level # NoLevel
                THEN StatsRelease(S, p) ELSE S
          S2 == [S1 EXCEPT !.assignments[a] = @ \cup {p},
                           !.people[p].assigned_activity = a,
                           !.people[p].preference_level = pref_level]
          S3 == StatsRecord(S2, p, pref_level)
      IN  IF S1.raised THEN [S |-> S1, ok |-> FALSE]
          ELSE [S |-> S3, ok |-> ~S3.raised]

\* Returns the new state and the boolean result.
assign_to_activity(S, p, a, pref_level) ==
    IF ~has_space(S, a) THEN [S |-> S, ok |-> FALSE]
    ELSE
      LET old == S.people[p].assigned_activity
          S1 == IF old = None THEN S
                ELSE IF p \notin S.assignments[old]
                     THEN [S EXCEPT !.raised = TRUE]
                     ELSE LET R == [S EXCEPT !.assignments[old] = @ \ {p}]
                          IN  IF S.people[p].preference_level # NoLevel
                              THEN StatsRelease(R, p) ELSE R
          S2 == [S1 EXCEPT !.assignments[a] = @ \cup {p},
                           !.people[p].assigned_activity = a,
                           !.people[p].preference_level = pref_level]
          S3 == StatsRecord(S2, p, pref_level)
      IN  IF S1.raised THEN [S |-> S1, ok |-> FALSE]
          ELSE [S |-> S3, ok |-> ~S3.raised]

\* The scan of find_best_available_activity from activity i on; best is the
\* candidate so far, inf tells that smallest_gap is still float('inf').
RECURSIVE BestScan(_, _, _, _, _)
BestScan(S, i, best, inf, smallest_gap) ==
    IF i > Len(S.activities) THEN best
    ELSE LET activity == S.activities[i]
             current_count == Count(S, i)
             gap == activity.min_participants - current_count
         IN  IF activity.is_cancelled \/ ~has_space(S, i)
             THEN BestScan(S, i + 1, best, inf, smallest_gap)
             ELSE IF current_count < activity.min_participants
             THEN IF inf \/ gap < smallest_gap
                  THEN BestScan(S, i + 1, i, FALSE, gap)
                  ELSE BestScan(S, i + 1, best, inf, smallest_gap)
             ELSE IF best = None
             THEN BestScan(S, i + 1, i, inf, smallest_gap)
             ELSE BestScan(S, i + 1, best, inf, smallest_gap)

\* The activity chosen (its rank is always 0), or None.
find_best_available_activity(S) == BestScan(S, 1, None, TRUE, 0)

\* Mutant: the rank returned is the 1-based position in the list.
find_next_available_preference_one_based(S, p, start_pref) ==
    LET prefs == S.people[p].preferences
        open == {i \in (start_pref + 1)..Len(prefs) : has_space(S, prefs[i])}
    IN  IF open = {} THEN [activity |-> None, level |-> NoLevel]
        ELSE LET i == CHOOSE i \in open : \A j \in open : i <= j
             IN  [activity |-> prefs[i], level |-> i]

\* The first preference from start_pref on that has space.
find_next_available_preference(S, p, start_pref) ==
    LET prefs == S.people[p].preferences
        open == {i \in (start_pref + 1)..Len(prefs) : has_space(S, prefs[i])}
    IN  IF open = {} THEN [activity |-> None, level |-> NoLevel]
        ELSE LET i == CHOOSE i \in open : \A j \in open : i <= j
             IN  [activity |-> prefs[i], level |-> i - 1]

Unassigned(S) ==
    SelectSeq([i \in 1..Len(S.people) |-> i],
              LAMBDA p : S.people[p].assigned_activity = None)

\* One person of the loop shared by the two placement routines;
\* mark tells whether a person nothing is found for is counted unassigned.
PlaceOne(S, p, mark) ==
    IF S.people[p].preferences # <<>>
    THEN LET nxt == find_next_available_preference(S, p, 0)
         IN  IF nxt.activity # None
             THEN assign_to_activity(S, p, nxt.activity, nxt.level).S
             ELSE S
    ELSE LET best_activity == find_best_available_activity(S)
         IN  IF best_activity # None
             THEN assign_to_activity(S, p, best_activity, 0).S
             ELSE IF mark
             THEN [S EXCEPT !.stats.unassigned = @ + 1,
                            !.stats.got_unassigned = Append(@, p)]
             ELSE S

RECURSIVE PlaceAll(_, _, _)
PlaceAll(S, todo, mark) ==
    IF todo = <<>> \/ S.raised THEN S
    ELSE PlaceAll(PlaceOne(S, Head(todo), mark), Tail(todo), mark)

reassign_from_cancelled(S) == PlaceAll(S, Unassigned(S), FALSE)

assign_remaining(S) == PlaceAll(S, Unassigned(S), TRUE)

(***************************************************************************)
(* optimize_assignments                                                    *)
(***************************************************************************)
\* Lines 82-89: every assigned person is released, in roster order.
RECURSIVE ClearFrom(_, _)
ClearFrom(S, p) ==
    IF p > Len(S.people) \/ S.raised THEN S
    ELSE IF S.people[p].assigned_activity = None THEN ClearFrom(S, p + 1)
    ELSE LET a  == S.people[p].assigned_activity
             S1 == IF S.people[p].preference_level # NoLevel
                   THEN StatsRelease(S, p) ELSE S
             S2 == IF p \notin S1.assignments[a]
                   THEN [S1 EXCEPT !.raised = TRUE]
                   ELSE [S1 EXCEPT !.assignments[a] = @ \ {p},
                                   !.people[p].assigned_activity = None,
                                   !.people[p].preference_level = NoLevel]
         IN  IF S1.raised THEN S1 ELSE ClearFrom(S2, p + 1)

\* The people who enter the grouping of lines 95-101 at this level.
Asking(S, pref_level) ==
    SelectSeq([i \in 1..Len(S.people) |-> i],
              LAMBDA p : /\ S.people[p].assigned_activity = None
                         /\ Len(S.people[p].preferences) > pref_level)

\* The keys of activity_candidates in insertion order: the activities named
\* at this level, by first appearance in the roster, cancelled ones skipped.
RECURSIVE CandidateKeys(_, _, _, _)
CandidateKeys(S, asking, pref_level, keys) ==
    IF asking = <<>> THEN keys
    ELSE LET a == S.people[Head(asking)].preferences[pref_level + 1]
         IN  CandidateKeys(S, Tail(asking), pref_level,
                 IF S.activities[a].is_cancelled \/ a \in Range(keys)
                 THEN keys ELSE Append(keys, a))

\* candidates.sort(key = len(preferences) - pref_level): a stable sort,
\* written as the concatenation of the buckets of equal key, ascending.
RECURSIVE SortedFrom(_, _, _, _)
SortedFrom(S, candidates, key, last) ==
    IF key > last THEN <<>>
    ELSE SelectSeq(candidates, LAMBDA p : Len(S.people[p].preferences) = key)
         \o SortedFrom(S, candidates, key + 1, last)

LongestList(S) ==
    IF S.people = <<>> THEN 0
    ELSE CHOOSE m \in {Len(S.people[p].preferences) : p \in DOMAIN S.people} :
            \A p \in DOMAIN S.people : Len(S.people[p].preferences) <= m

\* Mutant: the bucket is left in roster order.
SortCandidates_roster_order(S, candidates) == candidates

SortCandidates(S, candidates) == SortedFrom(S, candidates, 0, LongestList(S))

RECURSIVE AssignEach(_, _, _, _)
AssignEach(S, admitted, a, pref_level) ==
    IF admitted = <<>> \/ S.raised THEN S
    ELSE AssignEach(assign_to_activity(S, Head(admitted), a, pref_level).S,
                    Tail(admitted), a, pref_level)

\* Lines 104-117 for the remaining keys of activity_candidates.
RECURSIVE AdmitBuckets(_, _, _, _)
AdmitBuckets(S, keys, asking, pref_level) ==
    IF keys = <<>> \/ S.raised THEN S
    ELSE LET a == Head(keys)
             candidates == SortCandidates(S,
                 SelectSeq(asking,
                     LAMBDA p : S.people[p].preferences[pref_level + 1] = a))
             available_spaces == S.activities[a].max_participants - Count(S, a)
             S1 == IF S.activities[a].is_cancelled THEN S
                   ELSE AssignEach(S, ListTake(candidates, available_spaces),
                                   a, pref_level)
         IN  AdmitBuckets(S1, Tail(keys), asking, pref_level)

\* One iteration of the loop of line 92; self.activities[activity_name]
\* at line 98 raises KeyError on a name that is not in the catalog.
LevelPass(S, pref_level) ==
    LET asking == Asking(S, pref_level)
        unknown == {i \in DOMAIN asking :
            S.people[asking[i]].preferences[pref_level + 1] \notin DOMAIN S.activities}
    IN  IF unknown # {} THEN [S EXCEPT !.raised = TRUE]
        ELSE AdmitBuckets(S, CandidateKeys(S, asking, pref_level, <<>>),
                          asking, pref_level)

RECURSIVE LevelsFrom(_, _)
LevelsFrom(S, pref_level) ==
    IF pref_level >= NumRanks \/ S.raised THEN S
    ELSE LevelsFrom(LevelPass(S, pref_level), pref_level + 1)

optimize_assignments(S) ==
    LET cleared == ClearFrom(S, 1)
        ranked  == LevelsFrom(cleared, 0)
    IN  IF ranked.raised THEN ranked ELSE assign_remaining(ranked)

(***************************************************************************)
(* check_and_cancel_activities                                             *)
(***************************************************************************)
\* Lines 200-206 for the members of the cancelled activity not yet released.
RECURSIVE ReleaseMembers(_, _)
ReleaseMembers(S, members) ==
    IF members = {} \/ S.raised THEN S
    ELSE LET p  == CHOOSE q \in members : TRUE
             S1 == IF S.people[p].preference_level # NoLevel
                   THEN StatsRelease(S, p) ELSE S
             S2 == [S1 EXCEPT !.people[p].assigned_activity = None,
                              !.people[p].preference_level = NoLevel]
         IN  IF S1.raised THEN S1 ELSE ReleaseMembers(S2, members \ {p})

RECURSIVE CancelFrom(_, _, _)
CancelFrom(S, i, newly_cancelled) ==
    IF i > Len(S.activities) \/ S.raised
    THEN [S |-> S, newly_cancelled |-> newly_cancelled]
    ELSE LET current_participants == Count(S, i)
         IN  IF /\ ~S.activities[i].is_cancelled
                /\ 0 < current_participants
                /\ current_participants < S.activities[i].min_participants
             THEN LET S1 == [S EXCEPT !.activities[i].is_cancelled = TRUE,
                                      !.stats.cancelled_activities = Append(@, i)]
                      S2 == ReleaseMembers(S1, S1.assignments[i])
                      S3 == IF S2.raised THEN S2
                            ELSE [S2 EXCEPT !.assignments[i] = {}]
                  IN  CancelFrom(S3, i + 1, Append(newly_cancelled, i))
             ELSE CancelFrom(S, i + 1, newly_cancelled)

\* Mutant: the scan also cancels what is empty and below its minimum.
check_and_cancel_activities_cancels_empty(S) ==
    LET r == CancelFrom(S, 1, <<>>)
        empty == {i \in DOMAIN S.activities :
                     /\ ~S.activities[i].is_cancelled
                     /\ Count(S, i) = 0
                     /\ S.activities[i].min_participants > 0}
    IN  [S |-> [r.S EXCEPT !.activities =
                   [i \in DOMAIN @ |-> IF i \in empty
                                       THEN [@[i] EXCEPT !.is_cancelled = TRUE]
                                       ELSE @[i]]],
         newly_cancelled |-> r.newly_cancelled]

check_and_cancel_activities(S) == CancelFrom(S, 1, <<>>)

(***************************************************************************)
(* try_prevent_cancellation: ord is the order in which this call's         *)
(* list(set) snapshots come out (the iteration order of a Python set of    *)
(* str follows the strings' hashes, which differ from process to process). *)
(***************************************************************************)
\* Lines 230-237 over the snapshot of one donor; returns the state, what is
\* still needed, and whether the routine has returned True.
RECURSIVE PoachFrom(_, _, _, _)
PoachFrom(S, members, activity_name, needed) ==
    IF members = <<>> \/ S.raised
    THEN [S |-> S, needed |-> needed, done |-> FALSE]
    ELSE LET p == Head(members)
             prefs == S.people[p].preferences
         IN  IF activity_name \in Range(prefs)
             THEN LET r == assign_to_activity(S, p, activity_name,
                                              ListIndex(prefs, activity_name))
                  IN  IF r.ok
                      THEN IF needed - 1 = 0
                           THEN [S |-> r.S, needed |-> 0, done |-> TRUE]
                           ELSE PoachFrom(r.S, Tail(members), activity_name, needed - 1)
                      ELSE PoachFrom(r.S, Tail(members), activity_name, needed)
             ELSE PoachFrom(S, Tail(members), activity_name, needed)

\* Mutant: the donor test compares with the maximum instead of the minimum.
HasSurplus_vs_max(S, other) == Count(S, other) > S.activities[other].max_participants

\* The donor test of line 229.
HasSurplus(S, other) == Count(S, other) > S.activities[other].min_participants

RECURSIVE RescueFrom(_, _, _, _, _)
RescueFrom(S, other, activity_name, needed, ord) ==
    IF other > Len(S.activities) \/ S.raised THEN [S |-> S, result |-> FALSE]
    ELSE IF other = activity_name \/ S.activities[other].is_cancelled
    THEN RescueFrom(S, other + 1, activity_name, needed, ord)
    ELSE IF HasSurplus(S, other)
    THEN LET r == PoachFrom(S, OrderedBy(S.assignments[other], ord),
                            activity_name, needed)
         IN  IF r.done THEN [S |-> r.S, result |-> TRUE]
             ELSE RescueFrom(r.S, other + 1, activity_name, r.needed, ord)
    ELSE RescueFrom(S, other + 1, activity_name, needed, ord)

try_prevent_cancellation(S, activity_name, ord) ==
    RescueFrom(S, 1, activity_name,
               S.activities[activity_name].min_participants - Count(S, activity_name),
               ord)

(***************************************************************************)
(* The inputs: initialize_data leaves the roster and the catalog loaded,   *)
(* every assignment set empty and the statistics at their initial values.  *)
(***************************************************************************)
Caps == {c \in (0..MaxCap) \X (1..MaxCap) : c[1] <= c[2]}

PrefLists(na) == UNION {[1..l -> 1..na] : l \in 0..MaxPrefs}

GeneralInputs ==
    UNION {UNION {[acts : [1..na -> Caps], prefs : [1..np -> PrefLists(na)]]
                  : np \in 0..MaxPeople}
           : na \in 0..MaxActs}

\* Inputs beyond the bounds above: the scenarios of the specification and
\* inputs that need more people, activities or ranks than the bounds give.
ScenarioUnderfilled == [acts |-> << <<3, 5>> >>, prefs |-> << <<1>>, <<1>> >>]

ScenarioOversubscribed ==
    [acts |-> << <<2, 2>>, <<1, 5>> >>, prefs |-> << <<1, 2>>, <<1, 2>>, <<1, 2>> >>]

ScenarioRescue ==
    {[acts |-> << <<2, 3>>, <<1, 5>> >>, prefs |-> << <<1>>, <<2, 1>>, <<2>>, <<2>> >>],
     [acts |-> << <<2, 2>>, <<1, 3>> >>, prefs |-> << <<2>>, <<2, 1>>, <<1>>, <<2, 1>> >>],
     [acts |-> << <<1, 3>>, <<2, 2>> >>, prefs |-> << <<1>>, <<1>>, <<2>>, <<1, 2>> >>]}

ScenarioTwoRescues ==
    [acts |-> << <<2, 2>>, <<2, 2>>, <<0, 2>> >>,
     prefs |-> << <<1>>, <<2>>, <<3, 1>>, <<3, 1, 2>> >>]

ScenarioFifthChoice ==
    [acts |-> << <<1, 1>>, <<1, 1>>, <<1, 1>>, <<1, 1>>, <<1, 5>> >>,
     prefs |-> << <<1>>, <<2>>, <<3>>, <<4>>, <<1, 2, 3, 4, 5>> >>]

ScenarioGreedyRescue ==
    [acts |-> << <<3, 3>>, <<1, 2>> >>, prefs |-> << <<1>>, <<2, 1>>, <<2, 1>> >>]

ScenarioUnknownActivity ==
    {[acts |-> << <<1, 2>> >>, prefs |-> << <<2>> >>],
     [acts |-> << <<1, 2>> >>, prefs |-> << <<1, 2>>, <<1>> >>]}

Inputs ==
    GeneralInputs \cup ScenarioRescue \cup ScenarioUnknownActivity
    \cup {ScenarioUnderfilled, ScenarioOversubscribed, ScenarioTwoRescues,
          ScenarioFifthChoice, ScenarioGreedyRescue}

\* The state initialize_data builds from an input.
initialize_data(in) ==
    [people |-> [p \in DOMAIN in.prefs |-> NewPerson(in.prefs[p])],
     activities |-> [a \in DOMAIN in.acts |-> NewActivity(in.acts[a][1], in.acts[a][2])],
     assignments |-> [a \in DOMAIN in.acts |-> {}],
     stats |-> EmptyStats,
     raised |-> FALSE]

\* The input the current state was loaded from.
Input == [acts |-> [a \in DOMAIN activities |->
                       <<activities[a].min_participants, activities[a].max_participants>>],
          prefs |-> [p \in DOMAIN people |-> people[p].preferences]]

Init ==
    /\ \E in \in Inputs :
          LET S == initialize_data(in)
          IN  /\ people = S.people
              /\ activities = S.activities
              /\ assignments = S.assignments
              /\ stats = S.stats
    /\ pc = "seed"
    /\ next_person = 1
    /\ changes_made = FALSE
    /\ potentially_cancelled = <<>>
    /\ run = 1
    /\ first_outcome = <<>>

(***************************************************************************)
(* assign_activities, one action per step of its body.                     *)
(***************************************************************************)
\* The engine moves to state S and control to `to`, unless S raised.
Becomes(S, to) ==
    /\ people' = S.people
    /\ activities' = S.activities
    /\ assignments' = S.assignments
    /\ stats' = S.stats
    /\ pc' = IF S.raised THEN "error" ELSE to

\* Lines 125-133, one person of the roster.
SeedPerson ==
    /\ pc = "seed"
    /\ next_person <= Len(people)
    /\ LET p == next_person
           S == Cur
           T == IF people[p].preferences # <<>>
                THEN IF has_space(S, people[p].preferences[1])
                     THEN assign_to_activity(S, p, people[p].preferences[1], 0).S
                     ELSE S
                ELSE LET best_activity == find_best_available_activity(S)
                     IN  IF best_activity # None
                         THEN assign_to_activity(S, p, best_activity, 0).S
                         ELSE S
       IN  Becomes(T, "seed")
    /\ next_person' = next_person + 1
    /\ UNCHANGED <<changes_made, potentially_cancelled, run, first_outcome>>

\* Line 135.
InitialOptimize ==
    /\ pc = "seed"
    /\ next_person > Len(people)
    /\ Becomes(optimize_assignments(Cur), "optimized")
    /\ UNCHANGED <<next_person, changes_made, potentially_cancelled, run, first_outcome>>

\* Line 137.
EnterLoop ==
    /\ pc = "optimized"
    /\ changes_made' = TRUE
    /\ pc' = "while"
    /\ UNCHANGED <<people, activities, assignments, stats, next_person,
                   potentially_cancelled, run, first_outcome>>

\* The activities of lines 141-146.
PotentiallyCancelled(S) ==
    SelectSeq([i \in 1..Len(S.activities) |-> i],
              LAMBDA a : /\ ~S.activities[a].is_cancelled
                         /\ 0 < Count(S, a)
                         /\ Count(S, a) < S.activities[a].min_participants)

\* Lines 138-146: the loop test holds, the under-filled activities are listed.
ScanUnderfilled ==
    /\ pc = "while"
    /\ changes_made
    /\ changes_made' = FALSE
    /\ potentially_cancelled' = PotentiallyCancelled(Cur)
    /\ pc' = "rescue"
    /\ UNCHANGED <<people, activities, assignments, stats, next_person, run, first_outcome>>

\* Lines 148-150, one activity of potentially_cancelled.
Rescue ==
    /\ pc = "rescue"
    /\ potentially_cancelled # <<>>
    /\ \E ord \in Orders(Len(people)) :
          LET r == try_prevent_cancellation(Cur, Head(potentially_cancelled), ord)
          IN  /\ Becomes(r.S, "rescue")
              /\ changes_made' = (changes_made \/ r.result)
    /\ potentially_cancelled' = Tail(potentially_cancelled)
    /\ UNCHANGED <<next_person, run, first_outcome>>

\* Lines 152-154; redistribution follows when something was cancelled.
CheckAndCancel ==
    /\ pc = "rescue"
    /\ potentially_cancelled = <<>>
    /\ LET r == check_and_cancel_activities(Cur)
       IN  /\ Becomes(r.S, IF r.newly_cancelled # <<>> THEN "reassign" ELSE "while")
           /\ changes_made' = (changes_made \/ r.newly_cancelled # <<>>)
    /\ UNCHANGED <<next_person, potentially_cancelled, run, first_outcome>>

\* Line 155.
ReassignFromCancelled ==
    /\ pc = "reassign"
    /\ Becomes(reassign_from_cancelled(Cur), "while")
    /\ UNCHANGED <<next_person, changes_made, potentially_cancelled, run, first_outcome>>

\* Lines 138 and 158: the loop test fails, the final optimization runs.
FinalOptimize ==
    /\ pc = "while"
    /\ ~changes_made
    /\ Becomes(optimize_assignments(Cur), "done")
    /\ UNCHANGED <<next_person, changes_made, potentially_cancelled, run, first_outcome>>

Next ==
    \/ SeedPerson
    \/ InitialOptimize
    \/ EnterLoop
    \/ ScanUnderfilled
    \/ Rescue
    \/ CheckAndCancel
    \/ ReassignFromCancelled
    \/ FinalOptimize

Spec == Init /\ [][Next]_vars

(***************************************************************************)
(* A second run of the program on the same input files (main): the first   *)
(* run's outcome is kept for comparison and the engine starts afresh.      *)
(***************************************************************************)
\* What save_results writes out: the assignment map, the cancelled
\* activities and the statistics.
Outcome == [assignments |-> assignments,
            cancelled |-> {a \in DOMAIN activities : activities[a].is_cancelled},
            stats |-> stats]

Rerun ==
    /\ pc = "done"
    /\ run = 1
    /\ first_outcome' = Outcome
    /\ run' = 2
    /\ Becomes(initialize_data(Input), "seed")
    /\ next_person' = 1
    /\ changes_made' = FALSE
    /\ potentially_cancelled' = <<>>

NextRuns == Next \/ Rerun

SpecRuns == Init /\ [][NextRuns]_vars

(***************************************************************************)
(* Properties.                                                             *)
(***************************************************************************)
Acts == DOMAIN activities

People == DOMAIN people

Members(a) == Cardinality(assignments[a])

\* min <= max and max >= 1 for every activity
CapsWellFormed ==
    \A a \in Acts : /\ activities[a].min_participants <= activities[a].max_participants
                    /\ activities[a].max_participants >= 1

\* unique names hold by construction; the rest of a well-formed input
WellFormed ==
    /\ CapsWellFormed
    /\ \A p \in People : Range(people[p].preferences) \subseteq Acts

Underfilled(a) ==
    /\ ~activities[a].is_cancelled
    /\ 0 < Members(a)
    /\ Members(a) < activities[a].min_participants

\* C1: in every state between the engine's operations, a person is in
\* assignments[a] exactly when the person's assigned_activity is a, and
\* nobody is in the sets of two activities.
Consistency ==
    /\ \A p \in People : \A a \in Acts :
          (p \in assignments[a]) <=> (people[p].assigned_activity = a)
    /\ \A p \in People : people[p].assigned_activity \in Acts \cup {None}
    /\ \A a, b \in Acts : a # b => assignments[a] \cap assignments[b] = {}
    /\ \A a \in Acts : assignments[a] \subseteq People

\* C1 witness: a run has ended after a cancellation released members and
\* somebody was placed again at a later choice.
ConsistencyWitness ==
    /\ pc = "done"
    /\ \E a \in Acts : activities[a].is_cancelled
    /\ \E p \in People : /\ people[p].assigned_activity # None
                         /\ people[p].preference_level >= 1

\* C2: when assign_activities returns, no activity that is not cancelled
\* holds some members but fewer than its minimum.
FinalViability == pc = "done" => \A a \in Acts : ~Underfilled(a)

\* C3: for inputs with min <= max and max >= 1, every activity that is not
\* cancelled holds at most max_participants people, in every state.
Capacity ==
    CapsWellFormed =>
        \A a \in Acts : ~activities[a].is_cancelled =>
            Members(a) <= activities[a].max_participants

\* C3 witness: an activity is full and somebody who lists it is elsewhere.
CapacityWitness ==
    /\ CapsWellFormed
    /\ pc = "done"
    /\ \E a \in Acts : /\ ~activities[a].is_cancelled
                       /\ Members(a) = activities[a].max_participants
                       /\ \E p \in People : /\ a \in Range(people[p].preferences)
                                            /\ people[p].assigned_activity # a

\* C4: a cancelled activity has an empty assignment set, and stays
\* cancelled (hence empty) in every later state of the run.
CancellationMonotone ==
    /\ [](\A a \in Acts : activities[a].is_cancelled => assignments[a] = {})
    /\ [][\A a \in Acts : activities[a].is_cancelled =>
             /\ activities'[a].is_cancelled
             /\ assignments'[a] = {}]_vars

\* C4 witness: a run has ended with a cancelled activity one of whose
\* hopefuls was placed in another activity.
CancellationWitness ==
    /\ pc = "done"
    /\ \E a \in Acts : /\ activities[a].is_cancelled
                       /\ \E p \in People : /\ a \in Range(people[p].preferences)
                                            /\ people[p].assigned_activity \notin {None, a}

\* An exception has escaped assign_activities: the run stopped short of its
\* end (every other state before the end has a step to take).
Aborted == pc = "error"

\* C5: for every well-formed input assign_activities reaches its end; no
\* run on such an input stops short of it.
Termination == WellFormed => ~Aborted

\* C6: a second call of optimize_assignments right after the first has
\* returned leaves the assignment map and all statistics as they are.
OptimizeIdempotent ==
    pc \in {"optimized", "done"} =>
        LET T == optimize_assignments(Cur)
        IN  /\ ~T.raised
            /\ T.assignments = assignments
            /\ T.stats = stats

\* C7: one activity (min 3, max 5), two people who list only it: at the
\* end the activity is cancelled and both people are unassigned and counted
\* in the unassigned statistics.
UnderfilledScenario ==
    (Input = ScenarioUnderfilled /\ pc = "done") =>
        /\ activities[1].is_cancelled
        /\ stats.cancelled_activities = <<1>>
        /\ \A p \in People : people[p].assigned_activity = None
        /\ stats.unassigned = 2
        /\ Range(stats.got_unassigned) = {1, 2}

\* C8: A (min 2, max 2), B (min 1, max 5), three people listing [A, B]: at
\* the end two people are in A at level 0, one is in B at level 1, the
\* counters are 2, 1, 0, 0 with nobody unassigned, and nothing is cancelled.
OversubscribedScenario ==
    (Input = ScenarioOversubscribed /\ pc = "done") =>
        /\ Cardinality({p \in People : /\ people[p].assigned_activity = 1
                                       /\ people[p].preference_level = 0}) = 2
        /\ Cardinality({p \in People : /\ people[p].assigned_activity = 2
                                       /\ people[p].preference_level = 1}) = 1
        /\ Members(1) = 2
        /\ Members(2) = 1
        /\ stats.n = <<2, 1, 0, 0>>
        /\ stats.unassigned = 0
        /\ stats.cancelled_activities = <<>>
        /\ \A a \in Acts : ~activities[a].is_cancelled

\* C8 witness: the scenario's run has ended.
OversubscribedWitness == Input = ScenarioOversubscribed /\ pc = "done"

\* The rescue scenario: x (min 2) holds one member and is next to be
\* rescued, the only other activity y (min 1, not cancelled) holds three,
\* one of whom lists x.
RescueCase(x, y) ==
    /\ pc = "rescue"
    /\ potentially_cancelled # <<>>
    /\ Head(potentially_cancelled) = x
    /\ Acts = {x, y}
    /\ x # y
    /\ activities[x].min_participants = 2
    /\ Members(x) = 1
    /\ ~activities[y].is_cancelled
    /\ activities[y].min_participants = 1
    /\ Members(y) = 3
    /\ \E m \in assignments[y] : x \in Range(people[m].preferences)

\* C9: in the rescue scenario try_prevent_cancellation(x) returns true, one
\* member of y who lists x moves to x at the index of x in their list, the
\* following check_and_cancel_activities does not cancel x, and y keeps at
\* least its minimum.
RescueScenarioHolds ==
    [][\A x, y \in Acts : RescueCase(x, y) =>
          /\ changes_made'
          /\ pc' = "rescue"
          /\ \E m \in assignments[y] :
                /\ x \in Range(people[m].preferences)
                /\ assignments'[x] = assignments[x] \cup {m}
                /\ assignments'[y] = assignments[y] \ {m}
                /\ people'[m].assigned_activity = x
                /\ people'[m].preference_level = ListIndex(people[m].preferences, x)
          /\ ~check_and_cancel_activities(Cur').S.activities[x].is_cancelled
          /\ Cardinality(assignments'[y]) >= activities'[y].min_participants]_vars

\* C9 witness: the state the rescue of the scenario leaves: x at its minimum
\* of two with a member come from y, y with two of its three members left.
RescueWitness ==
    /\ pc = "rescue"
    /\ potentially_cancelled = <<>>
    /\ changes_made
    /\ Len(people) = 4
    /\ \E x, y \in Acts :
          /\ Acts = {x, y}
          /\ x # y
          /\ activities[x].min_participants = 2
          /\ Members(x) = 2
          /\ activities[y].min_participants = 1
          /\ Members(y) = 2
          /\ \E m \in assignments[x] : /\ people[m].preference_level >= 1
                                       /\ people[m].preferences[1] = y

\* C10: two runs on the same input end with the same assignment map, the
\* same cancelled activities and the same statistics.
Determinism == (run = 2 /\ pc = "done") => Outcome = first_outcome

\* Somebody's preference list names an activity that is not in the catalog.
UnknownPreference ==
    \E p \in People : ~(Range(people[p].preferences) \subseteq Acts)

\* C11: whenever a preference list names an activity that is not in the
\* catalog, at any rank and whether or not its owner is placed at an earlier
\* rank, assign_activities fails instead of running to its end.
FailFastUnknown == UnknownPreference => pc # "done"

\* C12: in every state between the engine's operations, a person has an
\* assigned activity exactly when the person has a preference level, and
\* then either the preference at that level is the assigned activity, or
\* the preference list is empty and the level is 0.
PersonInvariant ==
    \A p \in People :
        LET q == people[p]
        IN  /\ (q.assigned_activity = None) <=> (q.preference_level = NoLevel)
            /\ q.assigned_activity # None =>
                  \/ /\ q.preference_level + 1 \in DOMAIN q.preferences
                     /\ q.preferences[q.preference_level + 1] = q.assigned_activity
                  \/ /\ q.preferences = <<>>
                     /\ q.preference_level = 0

\* C12 witness: a rescue has just moved somebody to a later choice while a
\* person without preferences holds a best-fit place.
PersonInvariantWitness ==
    /\ pc = "rescue"
    /\ changes_made
    /\ \E p \in People : /\ people[p].preferences = <<>>
                         /\ people[p].assigned_activity # None
    /\ \E p \in People : /\ people[p].preference_level >= 1
                         /\ people[p].preferences[1] # people[p].assigned_activity

\* The people recorded at rank k - 1.
AtRank(k) == {p \in People : people[p].preference_level = k - 1}

\* C13: in every state between the engine's operations, for each rank k in
\* 0..3 the counter n(k+1) is the number of people whose preference_level
\* is k, and the list got_n(k+1) holds exactly their names, each once.
StatsLockstep ==
    \A k \in 1..NumRanks :
        /\ stats.n[k] = Cardinality(AtRank(k))
        /\ Range(stats.got_n[k]) = AtRank(k)
        /\ Len(stats.got_n[k]) = Cardinality(AtRank(k))

\* C13 witness: an activity was cancelled, its members were released and
\* the redistribution has just recorded somebody at a second choice.
StatsLockstepWitness ==
    /\ pc = "while"
    /\ changes_made
    /\ stats.cancelled_activities # <<>>
    /\ stats.n[1] >= 1
    /\ stats.n[2] >= 1

\* The people an activity can ever receive: those who list it and those
\* without preferences (best fit).
Hopefuls(a) == {p \in People : \/ a \in Range(people[p].preferences)
                               \/ people[p].preferences = <<>>}

\* C14: an activity is cancelled only by check_and_cancel_activities and
\* only when its assignment set is not empty as that call begins, so an
\* activity nobody was ever assigned to is never cancelled, whatever its
\* minimum.
NoPhantomCancellation ==
    /\ [](\A a \in Acts : activities[a].is_cancelled => Hopefuls(a) # {})
    /\ [][\A a \in Acts :
             (~activities[a].is_cancelled /\ activities'[a].is_cancelled) =>
                 /\ pc = "rescue"
                 /\ potentially_cancelled = <<>>
                 /\ assignments[a] # {}]_vars

\* C14 witness: a scan that cancelled one activity has passed over another
\* that is empty and below its minimum and left it open.
NoPhantomCancellationWitness ==
    /\ pc = "done"
    /\ \E a, b \in Acts :
          /\ activities[a].is_cancelled
          /\ ~activities[b].is_cancelled
          /\ Hopefuls(b) = {}
          /\ activities[b].min_participants > 0

\* C15: a rescue of x takes members only from an activity y that is not
\* cancelled, takes at most y's surplus (count - min) and so leaves no donor
\* below its own minimum.
RescueTakesOnlySurplus ==
    [][(pc = "rescue" /\ potentially_cancelled # <<>>) =>
          \A y \in Acts \ {Head(potentially_cancelled)} :
              LET taken == Cardinality(assignments[y] \ assignments'[y])
              IN  taken > 0 =>
                    /\ ~activities[y].is_cancelled
                    /\ taken <= Members(y) - activities[y].min_participants
                    /\ Cardinality(assignments'[y]) >= activities[y].min_participants]_vars

\* optimize_assignments is the next step to run (lines 135 and 158).
OptimizeDue ==
    \/ pc = "seed" /\ next_person > Len(people)
    \/ pc = "while" /\ ~changes_made

\* The state in which optimize_assignments calls _assign_remaining (line
\* 120): everything cleared and the four rank passes done.
BeforeRemaining == LevelsFrom(ClearFrom(Cur, 1), 0)

Occurrences(s, x) == Cardinality({i \in DOMAIN s : s[i] = x})

\* C16: when _assign_remaining returns, every person who still has no
\* assigned activity, with or without preferences, has been counted in the
\* unassigned counter and appended to the unassigned list by that call.
RemainderMarking ==
    OptimizeDue =>
        LET S == BeforeRemaining
            T == assign_remaining(S)
            left == {p \in DOMAIN T.people : T.people[p].assigned_activity = None}
        IN  (~S.raised /\ ~T.raised) =>
              /\ T.stats.unassigned = S.stats.unassigned + Cardinality(left)
              /\ \A p \in left :
                    Occurrences(T.stats.got_unassigned, p)
                        = Occurrences(S.stats.got_unassigned, p) + 1

\* The activity is in the catalog and is cancelled or has no free place.
Closed(a) ==
    /\ a \in Acts
    /\ \/ activities[a].is_cancelled
       \/ Members(a) >= activities[a].max_participants

\* C17: when assign_activities returns, every activity a placed person
\* lists before the rank they got is cancelled or full; every activity
\* listed by an unplaced person with preferences is cancelled or full; and
\* a person without preferences is unplaced only if no open activity has a
\* free place.
NoBetterOpenChoice ==
    pc = "done" =>
        \A p \in People :
            LET q == people[p]
            IN  /\ (q.preferences # <<>> /\ q.assigned_activity # None) =>
                      \A i \in DOMAIN q.preferences :
                          i <= q.preference_level => Closed(q.preferences[i])
                /\ (q.preferences # <<>> /\ q.assigned_activity = None) =>
                      \A i \in DOMAIN q.preferences : Closed(q.preferences[i])
                /\ (q.preferences = <<>> /\ q.assigned_activity = None) =>
                      \A a \in Acts : Closed(a)

\* C17 witness: at the end somebody holds a second choice behind a first
\* choice that is open and full, and somebody who has preferences is unplaced.
NoBetterOpenChoiceWitness ==
    /\ pc = "done"
    /\ \E p \in People : /\ people[p].preference_level >= 1
                         /\ ~activities[people[p].preferences[1]].is_cancelled
    /\ \E p \in People : /\ people[p].preferences # <<>>
                         /\ people[p].assigned_activity = None

\* The seed loop is about to call find_best_available_activity (line 131).
BestFitDue ==
    /\ pc = "seed"
    /\ next_person <= Len(people)
    /\ people[next_person].preferences = <<>>

\* C18: find_best_available_activity returns nothing exactly when no open
\* activity has space; otherwise, if some activity with space is below its
\* minimum, the one with the smallest gap (first in catalog order among
\* equal gaps); and if none is, the activity with space that has the fewest
\* participants (first in catalog order among ties).
BestFitSelection ==
    BestFitDue =>
        LET b == find_best_available_activity(Cur)
            open == {a \in Acts : has_space(Cur, a)}
            below == {a \in open : Members(a) < activities[a].min_participants}
            gap(a) == activities[a].min_participants - Members(a)
        IN  /\ (b = None) <=> (open = {})
            /\ below # {} =>
                  /\ b \in below
                  /\ \A a \in below : \/ gap(b) < gap(a)
                                      \/ gap(b) = gap(a) /\ b <= a
            /\ (open # {} /\ below = {}) =>
                  /\ b \in open
                  /\ \A a \in open : \/ Members(b) < Members(a)
                                     \/ Members(b) = Members(a) /\ b <= a

\* The state of optimize_assignments as the pass of rank r begins:
\* everything cleared and the passes of ranks 0..r-1 done.
RECURSIVE RankedUpTo(_, _)
RankedUpTo(S, r) ==
    IF r = 0 THEN ClearFrom(S, 1)
    ELSE LET T == RankedUpTo(S, r - 1)
         IN  IF T.raised THEN T ELSE LevelPass(T, r - 1)

\* The still-unassigned people whose preference at rank r is a.
RankBucket(S, r, a) ==
    {p \in DOMAIN S.people : /\ S.people[p].assigned_activity = None
                             /\ Len(S.people[p].preferences) > r
                             /\ S.people[p].preferences[r + 1] = a}

SmallerOf(m, n) == IF m <= n THEN m ELSE n

\* C19: in optimize_assignments, at each rank r from 0 to 3, the people
\* admitted to an open activity a come from the still-unassigned people
\* whose preference at rank r is a, are recorded at rank r, number
\* min(bucket size, max - count), and are the first of the bucket ordered by
\* ascending number of preferences, ties in roster order: nobody with a
\* longer list is admitted while somebody with a shorter list is left out.
ScarcityAwareAdmission ==
    OptimizeDue =>
        \A r \in 0..(NumRanks - 1) :
            LET pre  == RankedUpTo(Cur, r)
                post == LevelPass(pre, r)
            IN  (~pre.raised /\ ~post.raised) =>
                  \A a \in Acts : ~activities[a].is_cancelled =>
                      LET bucket   == RankBucket(pre, r, a)
                          admitted == post.assignments[a] \ pre.assignments[a]
                          free     == activities[a].max_participants - Count(pre, a)
                          len(p)   == Len(people[p].preferences)
                      IN  /\ admitted \subseteq bucket
                          /\ Cardinality(admitted) = SmallerOf(Cardinality(bucket), free)
                          /\ \A p \in admitted : post.people[p].preference_level = r
                          /\ \A p \in admitted : \A q \in bucket \ admitted :
                                \/ len(p) < len(q)
                                \/ len(p) = len(q) /\ p < q

\* C19 witness: the first optimization has run and somebody with a shorter
\* list holds the first choice that somebody earlier in the roster, with a
\* longer list, named too and was deferred from.
ScarcityAwareAdmissionWitness ==
    /\ pc = "optimized"
    /\ \E p, q \in People :
          /\ p < q
          /\ Len(people[p].preferences) > Len(people[q].preferences)
          /\ people[q].preferences # <<>>
          /\ people[p].preferences[1] = people[q].preferences[1]
          /\ people[q].assigned_activity = people[q].preferences[1]
          /\ people[q].preference_level = 0
          /\ people[p].assigned_activity # people[p].preferences[1]
          /\ people[p].preference_level = 1

\* C20: for every well-formed input, lists of more than four preferences
\* included, every assigned person has a preference_level in 0..3 and is
\* counted in the bucket of that rank, and no assignment step fails.
RanksWithinBuckets ==
    WellFormed =>
        /\ \A p \in People :
              people[p].assigned_activity # None =>
                  /\ people[p].preference_level \in 0..(NumRanks - 1)
                  /\ p \in UNION {Range(stats.got_n[k]) : k \in 1..NumRanks}
        /\ ~Aborted

====
